---- MODULE Spec2Model ----
(***************************************************************************)
(* A model of merkly's MerkleTree (src/merkly/mtree.py): construction,     *)
(* root, proof (make_proof / mix_tree / up_layer) and verify.              *)
(*                                                                         *)
(* Byte strings are sequences of integers.  A raw leaf is a one-byte       *)
(* string over 1..NumRaw.  The default hash keccak(x + y) is modelled as   *)
(* a collision-free digest of the concatenation: the digest of s is s      *)
(* enclosed in the two reserved bytes -1 and -2, so two digests are equal  *)
(* exactly when their inputs are, and the concatenation of two digests     *)
(* splits in one way only (as with fixed-width digests).                   *)
(*                                                                         *)
(* Python indices are kept 0-based; leafs[i] of the code is leafs[i + 1]   *)
(* here.                                                                   *)
(***************************************************************************)
EXTENDS Integers, Sequences, FiniteSets, TLC

VARIABLES raw_leafs, leafs, call

vars == <<raw_leafs, leafs, call>>

\* Bounds of the model.
MaxLeaves == 4
NumRaw == 3

RawValues == 1..NumRaw

----------------------------------------------------------------------------
\* Bytes, hashing, nodes.

encode(x) == <<x>>

EmptyBytes == <<>>

keccak(data) == <<-1>> \o data \o <<-2>>

hash_function(x, y) == keccak(x \o y)

LeafHash(raw_leaf) == hash_function(encode(raw_leaf), EmptyBytes)

hash_leafs(raw) == [i \in 1..Len(raw) |-> LeafHash(raw[i])]

\* A Node(data, side); isNode tells it from the bare bytes verify starts with.
Node(d, s) == [isNode |-> TRUE, data |-> d, side |-> s]

Bytes(d) == [isNode |-> FALSE, data |-> d, side |-> "NONE"]

\* The outcome of a call: the exception raised ("none" when it returns) and
\* the returned value in the field of its type.
Raise(e) == [err |-> e, proof |-> <<>>, hash |-> <<>>, bool |-> FALSE]

ReturnProof(p) == [err |-> "none", proof |-> p, hash |-> <<>>, bool |-> FALSE]

ReturnHash(h) == [err |-> "none", proof |-> <<>>, hash |-> h, bool |-> FALSE]

ReturnBool(b) == [err |-> "none", proof |-> <<>>, hash |-> <<>>, bool |-> b]

Reverse(s) == [i \in 1..Len(s) |-> s[Len(s) + 1 - i]]

----------------------------------------------------------------------------
\* merkly.utils helpers used by the tree.

is_power_2(number) == \E k \in 0..number : 2 ^ k = number

half(list_item) ==
    LET middle == Len(list_item) \div 2
    IN  <<SubSeq(list_item, 1, middle), SubSeq(list_item, middle + 1, Len(list_item))>>

slice_in_pairs(list_item) ==
    LET n == Len(list_item)
    IN  [k \in 1..((n + 1) \div 2) |->
            IF 2 * k <= n THEN <<list_item[2 * k - 1], list_item[2 * k]>>
                          ELSE <<list_item[2 * k - 1]>>]

----------------------------------------------------------------------------
\* make_root: the while loop's body, then the loop.

\* next_level with the odd element combined with itself instead of carried.
next_level_selfhash(level) ==
    LET n == Len(level)
    IN  [k \in 1..(n \div 2) |-> hash_function(level[2 * k - 1], level[2 * k])]
        \o (IF n % 2 = 1 THEN <<hash_function(level[n], level[n])>> ELSE <<>>)

next_level(level) ==
    LET n == Len(level)
    IN  [k \in 1..(n \div 2) |-> hash_function(level[2 * k - 1], level[2 * k])]
        \o (IF n % 2 = 1 THEN <<level[n]>> ELSE <<>>)

RECURSIVE make_root(_)
make_root(level) ==
    IF Len(level) > 1 THEN make_root(next_level(level)) ELSE level[1]

root(self_leafs) == ReturnHash(make_root(self_leafs))

----------------------------------------------------------------------------
\* Proof generation.

\* list.index: the lowest 0-based position of value, -1 standing for the
\* ValueError raised when there is none.
\* index answering -1 without raising when the value is absent, which the
\* caller then reads as the last position.
index_absent_is_last(list_item, value) ==
    IF \E i \in 1..Len(list_item) : list_item[i] = value
    THEN (CHOOSE i \in 1..Len(list_item) :
              /\ list_item[i] = value
              /\ \A j \in 1..(i - 1) : list_item[j] # value) - 1
    ELSE Len(list_item) - 1

\* index answering the highest position of the value instead of the lowest.
index_last(list_item, value) ==
    IF \E i \in 1..Len(list_item) : list_item[i] = value
    THEN (CHOOSE i \in 1..Len(list_item) :
              /\ list_item[i] = value
              /\ \A j \in (i + 1)..Len(list_item) : list_item[j] # value) - 1
    ELSE -1

index(list_item, value) ==
    IF \E i \in 1..Len(list_item) : list_item[i] = value
    THEN (CHOOSE i \in 1..Len(list_item) :
              /\ list_item[i] = value
              /\ \A j \in 1..(i - 1) : list_item[j] # value) - 1
    ELSE -1

up_layer(leaves) ==
    LET pairs == slice_in_pairs(leaves)
    IN  [k \in 1..Len(pairs) |->
            IF Len(pairs[k]) = 1 THEN pairs[k][1]
                                 ELSE hash_function(pairs[k][1], pairs[k][2])]

RECURSIVE mix_tree(_, _, _)
mix_tree(leaves, proof, leaf_index) ==
    IF Len(leaves) = 1 THEN proof
    ELSE LET appended ==
                 IF leaf_index % 2 = 0
                 THEN IF leaf_index + 1 < Len(leaves)
                      THEN Append(proof, Node(leaves[leaf_index + 2], "RIGHT"))
                      ELSE proof
                 ELSE Append(proof, Node(leaves[leaf_index], "LEFT"))
         IN  mix_tree(up_layer(leaves), appended, leaf_index \div 2)

RECURSIVE make_proof(_, _, _)
make_proof(level, proof, leaf) ==
    LET idx == index(level, leaf)
    IN  IF idx = -1 THEN Raise("ValueError")
        ELSE IF ~is_power_2(Len(level)) THEN ReturnProof(mix_tree(level, <<>>, idx))
        ELSE IF Len(level) = 2
             THEN ReturnProof(Reverse(Append(proof,
                      IF idx = 1 THEN Node(level[1], "LEFT")
                                 ELSE Node(level[2], "RIGHT"))))
        ELSE LET left == half(level)[1]
                 right == half(level)[2]
             IN  IF 2 * idx < Len(level)
                 THEN make_proof(left, Append(proof, Node(make_root(right), "RIGHT")), leaf)
                 ELSE make_proof(right, Append(proof, Node(make_root(left), "LEFT")), leaf)

proof_of(self_leafs, raw_leaf) == make_proof(self_leafs, <<>>, LeafHash(raw_leaf))

----------------------------------------------------------------------------
\* Verification.

concat_nodes(left, right) ==
    IF ~left.isNode
    THEN IF right.side = "RIGHT"
         THEN Node(hash_function(left.data, right.data), "LEFT")
         ELSE Node(hash_function(right.data, left.data), "RIGHT")
    ELSE IF right.side = "RIGHT"
         THEN Node(hash_function(left.data, right.data), "LEFT")
         ELSE Node(hash_function(right.data, left.data), "RIGHT")

\* functools.reduce without an initial value, over a non-empty list.
RECURSIVE reduce_from(_, _)
reduce_from(acc, rest) ==
    IF rest = <<>> THEN acc
    ELSE reduce_from(concat_nodes(acc, Head(rest)), Tail(rest))

reduce(list_item) == reduce_from(Head(list_item), Tail(list_item))

\* full_proof is a new list: [leaf hash] extended with the caller's proof.
full_proof_of(proof, raw_leaf) == <<Bytes(LeafHash(raw_leaf))>> \o proof

\* verify building full_proof in the caller's list (insert at the front).
verify_inserts_into_proof(proof, raw_leaf) == <<Bytes(LeafHash(raw_leaf))>> \o proof

\* The caller's proof list as verify leaves it.
verify_leaves_proof(proof, raw_leaf) == proof

\* verify: .data of the reduction is an AttributeError when the reduction is
\* still the bare leaf hash.
verify(self_leafs, proof, raw_leaf) ==
    LET acc == reduce(full_proof_of(proof, raw_leaf))
    IN  IF ~acc.isNode THEN Raise("AttributeError")
        ELSE ReturnBool(acc.data = make_root(self_leafs))

----------------------------------------------------------------------------
\* The state machine: one tree, then any sequence of root / proof / verify.

NonEmptySeqs(S, n) == UNION {[1..k -> S] : k \in 1..n}

Call(op, raw, arg, argAfter, src, out) ==
    [op |-> op, raw |-> raw, arg |-> arg, argAfter |-> argAfter, src |-> src,
     err |-> out.err, proof |-> out.proof, hash |-> out.hash, bool |-> out.bool]

\* __init__: validate_leafs admits every non-empty list of strings.
Init ==
    /\ raw_leafs \in NonEmptySeqs(RawValues, MaxLeaves)
    /\ leafs = hash_leafs(raw_leafs)
    /\ call = Call("new", 0, <<>>, <<>>, 0, ReturnProof(<<>>))

Root ==
    /\ call' = Call("root", 0, <<>>, <<>>, 0, root(leafs))
    /\ UNCHANGED <<raw_leafs, leafs>>

Proof ==
    \E raw_leaf \in RawValues :
        /\ call' = Call("proof", raw_leaf, <<>>, <<>>, 0, proof_of(leafs, raw_leaf))
        /\ UNCHANGED <<raw_leafs, leafs>>

\* Proof lists a caller may pass: the proof just returned, as it is, without
\* its last node, or with its first side tag flipped; the empty list; a
\* single node holding the first leaf hash.
Flip(s) == IF s = "LEFT" THEN "RIGHT" ELSE "LEFT"

Tampered(p) ==
    {p}
    \cup (IF p = <<>> THEN {}
          ELSE {SubSeq(p, 1, Len(p) - 1),
                [p EXCEPT ![1] = Node(p[1].data, Flip(p[1].side))]})

ProofArgs ==
    (IF call.op = "proof" /\ call.err = "none" THEN Tampered(call.proof) ELSE {})
    \cup {<<>>, <<Node(leafs[1], "LEFT")>>}

Verify ==
    \E raw_leaf \in RawValues, p \in ProofArgs :
        LET src == IF call.op = "proof" /\ call.err = "none" /\ p = call.proof
                   THEN call.raw ELSE 0
        IN  /\ call' = Call("verify", raw_leaf, p, verify_leaves_proof(p, raw_leaf),
                            src, verify(leafs, p, raw_leaf))
            /\ UNCHANGED <<raw_leafs, leafs>>

Next == Root \/ Proof \/ Verify

Spec == Init /\ [][Next]_vars

----------------------------------------------------------------------------
\* Vocabulary of the properties.

Positions(raw_leaf) == {i \in 1..Len(leafs) : leafs[i] = LeafHash(raw_leaf)}

InTree(raw_leaf) == Positions(raw_leaf) # {}

\* The least k with 2^k >= n.
CeilLog2(n) == CHOOSE k \in 0..n : 2 ^ k >= n /\ (k = 0 \/ 2 ^ (k - 1) < n)

\* One level of the pairwise reduction with carry, stated position by
\* position, and the reduction down to one element.
CarryLevel(h) ==
    [k \in 1..((Len(h) + 1) \div 2) |->
        IF 2 * k <= Len(h) THEN hash_function(h[2 * k - 1], h[2 * k])
                           ELSE h[2 * k - 1]]

RECURSIVE CarryReduce(_)
CarryReduce(h) == IF Len(h) = 1 THEN h[1] ELSE CarryReduce(CarryLevel(h))

\* The membership proof of the 0-based position i: at each level of the
\* reduction the sibling of the path, if it has one, tagged with its side.
RECURSIVE SiblingPath(_, _)
SiblingPath(h, i) ==
    IF Len(h) = 1 THEN <<>>
    ELSE (IF i % 2 = 1 THEN <<Node(h[i], "LEFT")>>
          ELSE IF i + 2 <= Len(h) THEN <<Node(h[i + 2], "RIGHT")>>
          ELSE <<>>)
         \o SiblingPath(CarryLevel(h), i \div 2)

LowestPosition(raw_leaf) ==
    CHOOSE i \in Positions(raw_leaf) : \A j \in Positions(raw_leaf) : i <= j

----------------------------------------------------------------------------
\* C1: round trip. For every tree and every leaf x of it, proof(x) returns a
\* proof, and verify of that proof against x returns True.
RoundTrip ==
    /\ (call.op = "proof" /\ InTree(call.raw)) => call.err = "none"
    /\ (call.op = "verify" /\ call.src # 0 /\ call.raw = call.src)
           => (call.err = "none" /\ call.bool)

\* C2: soundness against a wrong leaf. For every tree, every leaf x of it and
\* every raw value y whose leaf hash differs from that of x, proof(x) is
\* there to be verified and verify(proof(x), y) returns False.
WrongLeafRejected ==
    /\ (call.op = "proof" /\ InTree(call.raw)
            /\ \E y \in RawValues : LeafHash(y) # LeafHash(call.raw))
           => call.err = "none"
    /\ (call.op = "verify" /\ call.src # 0 /\ LeafHash(call.raw) # LeafHash(call.src))
           => (call.err = "none" /\ ~call.bool)

\* C3: root is the bottom-up pairwise reduction with carry: pairs
\* (h[2i], h[2i+1]) are combined, the last element of an odd level is
\* carried unchanged; for three leaves the root is combine(combine(h1, h2), h3)
\* and for four it is combine(combine(h1, h2), combine(h3, h4)).
RootIsCarryReduction ==
    call.op = "root" =>
        /\ call.err = "none"
        /\ call.hash = CarryReduce(leafs)
        /\ Len(leafs) = 3 =>
               call.hash = hash_function(hash_function(leafs[1], leafs[2]), leafs[3])
        /\ Len(leafs) = 4 =>
               call.hash = hash_function(hash_function(leafs[1], leafs[2]),
                                         hash_function(leafs[3], leafs[4]))

RootOfThreeLeaves ==
    /\ call.op = "root"
    /\ Len(leafs) = 3
    /\ Cardinality({leafs[i] : i \in 1..3}) = 3
    /\ call.hash = hash_function(hash_function(leafs[1], leafs[2]), leafs[3])

\* C4: single-leaf tree. With exactly one leaf x, root is the leaf hash of x
\* and proof(x) returns the empty sequence without raising.
SingleLeafTree ==
    Len(leafs) = 1 =>
        /\ call.op = "root" => (call.err = "none" /\ call.hash = LeafHash(raw_leafs[1]))
        /\ (call.op = "proof" /\ call.raw = raw_leafs[1])
               => (call.err = "none" /\ call.proof = <<>>)

\* C5: verify is total. Whatever well-formed proof and raw leaf it is given,
\* verify returns a boolean and raises nothing.
VerifyIsTotal == call.op = "verify" => call.err = "none"

\* C6: proof length. For a tree of n leaves and a leaf x of it, proof(x)
\* returns exactly log2(n) nodes when n is a power of two and at most
\* ceil(log2(n)) nodes otherwise.
ProofLength ==
    (call.op = "proof" /\ InTree(call.raw)) =>
        /\ call.err = "none"
        /\ IF is_power_2(Len(leafs))
           THEN Len(call.proof) = CeilLog2(Len(leafs))
           ELSE Len(call.proof) <= CeilLog2(Len(leafs))

\* C7: leaf not found. For a raw value whose leaf hash is not in the tree,
\* proof raises ValueError and returns no proof, whatever the leaf count.
LeafNotFound ==
    (call.op = "proof" /\ ~InTree(call.raw)) =>
        (call.err = "ValueError" /\ call.proof = <<>>)

LeafNotFoundInThreeAndFour ==
    /\ call.op = "proof"
    /\ ~InTree(call.raw)
    /\ Len(leafs) \in {3, 4}
    /\ call.err = "ValueError"

\* C8: read-only queries. No root, proof or verify call, raising or not,
\* changes the hashed leaves or the raw leaves, the hashed leaves stay the
\* hashes of the raw leaves, and verify leaves the proof list it was given
\* as it was.
QueriesAreReadOnly ==
    [][/\ leafs' = leafs
       /\ raw_leafs' = raw_leafs
       /\ leafs' = hash_leafs(raw_leafs')
       /\ call'.op = "verify" => call'.argAfter = call'.arg]_vars

VerifyKeptItsProofList ==
    /\ call.op = "verify"
    /\ Len(call.arg) >= 2
    /\ call.argAfter = call.arg
    /\ leafs = hash_leafs(raw_leafs)

\* C9: branch equivalence. For a leaf count that is a power of two, the
\* proof of the halving branch is node for node the proof mix_tree gives for
\* the same leaves and index, and from two leaves on the root is the
\* combination of the roots of the two halves.
BranchEquivalence ==
    is_power_2(Len(leafs)) =>
        /\ (call.op = "proof" /\ InTree(call.raw)) =>
               /\ call.err = "none"
               /\ call.proof = mix_tree(leafs, <<>>, index(leafs, LeafHash(call.raw)))
        /\ Len(leafs) >= 2 =>
               make_root(leafs) = hash_function(make_root(half(leafs)[1]),
                                                make_root(half(leafs)[2]))

\* C10: duplicate leaves. In a tree of at least two leaves where x occurs at
\* more than one position, proof(x) is the membership proof of the lowest
\* position of x, and verifying it against x returns True.
DuplicateLeafProof ==
    /\ (call.op = "proof" /\ Len(leafs) >= 2 /\ Cardinality(Positions(call.raw)) > 1)
           => /\ call.err = "none"
              /\ call.proof = SiblingPath(leafs, LowestPosition(call.raw) - 1)
    /\ (call.op = "verify" /\ call.src # 0 /\ call.raw = call.src
            /\ Len(leafs) >= 2 /\ Cardinality(Positions(call.raw)) > 1)
           => (call.err = "none" /\ call.bool)

DuplicateInRightHalf ==
    /\ call.op = "verify"
    /\ call.src # 0
    /\ call.raw = call.src
    /\ Len(leafs) = 4
    /\ Positions(call.raw) = {3, 4}
    /\ call.bool

====
